---- MODULE Spec2Model ----
(***************************************************************************)
(* Harmonix: the entity store (in-memory MemStorage and DatabaseStorage),  *)
(* the three job processors (stem separation, voice cloning, music         *)
(* generation) and the job-submission paths, as a state machine over the   *)
(* JavaScript event loop: a FIFO microtask queue of promise continuations  *)
(* and a set of pending external operations (database statements, adapter  *)
(* calls and file writes) that complete as macrotasks.                     *)
(***************************************************************************)
EXTENDS Integers, Sequences, FiniteSets, TLC

\* ------------------------------------------------------------------ bounds
\* job submissions against the in-memory store / against the database store
MaxCalls == 2
MaxDbCalls == 1
\* create calls and update calls on the entity maps in a run
MaxCreates == 2
MaxUpdates == 1
\* awaited calls made on the two stores side by side
MaxOps == 3
\* PUT and DELETE requests on the entity routes
MaxReqs == 2

\* --------------------------------------------------------------- constants
Kinds == {"stem", "voice", "music"}
ETypes == {"projects", "tracks", "audioClips", "effects"}
Backends == {"mem", "db"}
StemTypes == {"vocals", "drums", "bass", "other"}
\* null / undefined is the empty sequence, a present value v is <<v>>
Null == <<>>
Some(v) == <<v>>
IsSet(x) == x # <<>>
WorkErrors == {"Failed to generate"}
DbError == "connection error"

VARIABLES
  backend,    \* which IStorage implementation the callers were handed
  nextIds,    \* MemStorage.nextIds / the serial sequences, per job kind
  jobs,       \* the three job maps (tables): kind -> (id -> record)
  calls,      \* each job submission: its caller's and its processor's position
  microQ,     \* the microtask queue: promise continuations, FIFO
  pendingIO,  \* external operations in flight
  statusLog,  \* history: every status value stored for a job, in order
  recs,       \* the project/track/clip/effect maps (tables), above the demo
              \* records: type -> (id -> record)
  createLog,  \* history: the create calls on the entity maps, in call order
  updates,    \* the number of update calls made on the entity maps
  mem,        \* a MemStorage: its maps (rows) and its nextIds
  pg,         \* a DatabaseStorage: its tables (rows) and their sequences (nextIds)
  last,       \* the last call made on the two stores and what each answered
  ops,        \* the number of calls made on the two stores
  reqs,       \* the PUT and DELETE requests: the handler's position and answer
  boot,       \* start-up: its phase, the `storage` binding, global.storage
  made,       \* history: the records created through the API during and after start-up
  moods,      \* the mood tag join table, and the calls made on it with their results
  files,      \* the clock, and the output files each job's processor has written
  tracksRef   \* the client's audio engine: each track's volume, muted, solo and gain

vars ==
  <<backend, nextIds, jobs, calls, microQ, pendingIO, statusLog, recs, createLog, updates,
    mem, pg, last, ops, reqs, boot, made, moods, files, tracksRef>>

\* what the job machinery leaves alone / what the entity operations leave alone
JobFrame == UNCHANGED <<backend, recs, createLog, updates, mem, pg, last, ops, reqs, boot, made, moods, files, tracksRef>>
StoreFrame == UNCHANGED <<backend, jobs, calls, statusLog, mem, pg, last, ops, reqs, boot, made, moods, files, tracksRef>>

Calls == 1..(IF MaxCalls > MaxDbCalls THEN MaxCalls ELSE MaxDbCalls)

\* ----------------------------------------------------------- job records
JobInput(kind) ==
  CASE kind = "stem" -> "/x.wav"
    [] kind = "voice" -> "/sample.wav"
    [] OTHER -> "a prompt"

\* MemStorage.create<Job>: {...insertJob, id, status: "pending", output: null, error: null}
NewJob(id, projectId, kind) ==
  [id |-> id, projectId |-> projectId, input |-> JobInput(kind),
   status |-> "pending", output |-> Null, error |-> Null]

\* const id = this.nextIds.<kind>++ : the counter after the allocation
AllocNextMutNoIncrement(n) == n

AllocNext(n) == n + 1

\* the partial documents the processors hand to update<Job>
ProcessingUpdateMutPending == [status |-> "pending"]

ProcessingUpdate == [status |-> "processing"]

CompletedUpdateMutNoOutput(out) == [status |-> "completed"]

CompletedUpdateMutWholeJob(out) ==
  [status |-> "completed", output |-> Some(out), projectId |-> 2]

CompletedUpdate(out) == [status |-> "completed", output |-> Some(out)]

FailedUpdateMutRetry(msg) == [status |-> "pending", error |-> Some(msg)]

FailedUpdate(msg) == [status |-> "failed", error |-> Some(msg)]

\* { ...job, ...jobUpdate }: the fields of the partial document win
Merge(rec, partial) ==
  [f \in DOMAIN rec |-> IF f \in DOMAIN partial THEN partial[f] ELSE rec[f]]

\* the output a finished unit of work returns: a path per stem type, or a path
WorkOutputMutNoOther(kind) ==
  IF kind = "stem"
    THEN [s \in StemTypes \ {"other"} |-> <<"/uploads/stems", s>>]
    ELSE <<"/uploads", kind>>

WorkOutput(kind) ==
  IF kind = "stem"
    THEN [s \in StemTypes |-> <<"/uploads/stems", s>>]
    ELSE <<"/uploads", kind>>

Live(kind) == DOMAIN jobs[kind]

Ok(v) == [ok |-> TRUE, val |-> v]
Err(m) == [ok |-> FALSE, val |-> m]

\* throw new Error(`<Job> with id ${id} not found`)
NotFoundMsg == "job not found"

IdleCall ==
  [kind |-> "none", via |-> "none", cpc |-> "idle", ppc |-> "none",
   job |-> Null, returned |-> Null, got |-> Null, response |-> Null,
   err |-> Null]

\* ------------------------------------------------------ store operations
\* The continuation a settled store promise resumes.
Task(c, k, v, p) == [c |-> c, k |-> k, v |-> v, p |-> p]

\* this.<kind>Jobs.get(id): the record, or undefined
Snapshot(kind, id) == IF id \in Live(kind) THEN Some(jobs[kind][id]) ELSE Null

\* storage.update<Job>(id, partial), up to its first await.  MemStorage reads
\* the record (await this.get<Job>(id)) and resumes one microtask later;
\* DatabaseStorage sends the UPDATE statement.
UpdateQ(c, kind, id, partial, q) ==
  IF backend = "mem"
    THEN Append(q, Task(c, "memUpdate", Snapshot(kind, id), partial))
    ELSE q

UpdateIO(c, partial, io) ==
  IF backend = "mem" THEN io ELSE io \cup {[c |-> c, op |-> "update", p |-> partial]}

\* storage.get<Job>(id), up to its first await.
GetQ(c, kind, id, q) ==
  IF backend = "mem" THEN Append(q, Task(c, "afterGet", Ok(Snapshot(kind, id)), Null)) ELSE q

GetIO(c, io) ==
  IF backend = "mem" THEN io ELSE io \cup {[c |-> c, op |-> "select", p |-> Null]}

\* this.<kind>Jobs.set(id, record) / the row written by a statement
StoreJob(kind, rec) ==
  /\ jobs' = [jobs EXCEPT ![kind] =
                [i \in DOMAIN jobs[kind] \cup {rec.id} |->
                   IF i = rec.id THEN rec ELSE jobs[kind][i]]]
  /\ statusLog' = [statusLog EXCEPT ![kind] =
                [i \in DOMAIN statusLog[kind] \cup {rec.id} |->
                   IF i = rec.id
                     THEN (IF i \in DOMAIN statusLog[kind] THEN statusLog[kind][i] ELSE <<>>)
                            \o <<rec.status>>
                     ELSE statusLog[kind][i]]]

\* --------------------------------------------------------- job submission
\* POST /api/<kind>: the request fields the handler validates
Requests == [file : BOOLEAN, text : BOOLEAN, projectId : {"1", "abc"}]

\* isNaN(parseInt(req.body.projectId))
IsNaNField(s) == s # "1"

RouteRejects(kind, req) ==
  \/ kind \in {"stem", "voice"} /\ ~req.file
  \/ kind \in {"voice", "music"} /\ ~req.text
  \/ IsNaNField(req.projectId)

RouteCreatedMutOk(job) == [code |-> 200, body |-> job]

RouteCreated(job) == [code |-> 201, body |-> job]

RouteBadRequest(msg) == [code |-> 400, body |-> msg]

CallLimit == IF backend = "mem" THEN MaxCalls ELSE MaxDbCalls

FirstIdle(c) ==
  /\ c <= CallLimit
  /\ calls[c].cpc = "idle"
  /\ \A d \in Calls : d < c => calls[d].cpc # "idle"

\* storage.create<Job>(insertJob), up to its first await
InvokeCreate(c, kind, via) ==
  /\ calls' = [calls EXCEPT ![c] = [IdleCall EXCEPT !.kind = kind, !.via = via,
                                                      !.cpc = "awaitCreate"]]
  /\ IF backend = "mem"
       THEN /\ nextIds' = [nextIds EXCEPT ![kind] = AllocNext(@)]
            /\ StoreJob(kind, NewJob(nextIds[kind], 1, kind))
            /\ microQ' = Append(microQ,
                 Task(c, "afterCreate", Ok(NewJob(nextIds[kind], 1, kind)), Null))
            /\ UNCHANGED pendingIO
       ELSE /\ pendingIO' = pendingIO \cup {[c |-> c, op |-> "insert", p |-> Null]}
            /\ UNCHANGED <<nextIds, jobs, statusLog, microQ>>

\* a caller invokes createAndProcess<Job>(projectId, input, storage)
SubmitHelper(c, kind) ==
  /\ FirstIdle(c)
  /\ InvokeCreate(c, kind, "helper")
  /\ JobFrame

\* a POST /api/<kind> request arrives
SubmitRoute(c, kind, req) ==
  /\ microQ = <<>>
  /\ FirstIdle(c)
  /\ IF RouteRejects(kind, req)
       THEN /\ calls' = [calls EXCEPT ![c] =
                 [IdleCall EXCEPT !.kind = kind, !.via = "route", !.cpc = "done",
                                  !.response = Some(RouteBadRequest("invalid request"))]]
            /\ UNCHANGED <<nextIds, jobs, statusLog, microQ, pendingIO>>
       ELSE InvokeCreate(c, kind, "route")
  /\ JobFrame

\* ------------------------------------------------------------ microtasks
\* handle<Job>(job, storage) up to its first await: the update to processing
\* is invoked; what follows in the caller (return job / res.status(201)) runs
\* in the same synchronous block.
AfterCreate(t, rest) ==
  LET c == t.c
      kind == calls[c].kind
  IN
  IF t.v.ok
    THEN /\ pendingIO' = UpdateIO(c, ProcessingUpdate, pendingIO)
         /\ IF calls[c].via = "helper"
              THEN /\ microQ' = Append(UpdateQ(c, kind, t.v.val.id, ProcessingUpdate, rest),
                                       Task(c, "afterCap", t.v, Null))
                   /\ calls' = [calls EXCEPT ![c].job = Some(t.v.val),
                                             ![c].ppc = "awaitProcessing",
                                             ![c].cpc = "awaitReturn"]
              ELSE /\ microQ' = UpdateQ(c, kind, t.v.val.id, ProcessingUpdate, rest)
                   /\ calls' = [calls EXCEPT ![c].job = Some(t.v.val),
                                             ![c].ppc = "awaitProcessing",
                                             ![c].cpc = "done",
                                             ![c].response = Some(RouteCreated(t.v.val))]
         /\ UNCHANGED <<nextIds, jobs, statusLog>>
    ELSE /\ IF calls[c].via = "helper"
              THEN /\ microQ' = Append(rest, Task(c, "afterCap", t.v, Null))
                   /\ calls' = [calls EXCEPT ![c].cpc = "awaitReturn"]
              ELSE /\ microQ' = rest
                   /\ calls' = [calls EXCEPT ![c].cpc = "done",
                                  ![c].response = Some(RouteBadRequest(t.v.val))]
         /\ UNCHANGED <<nextIds, jobs, statusLog, pendingIO>>

\* the caller of createAndProcess<Job> resumes and reads the job back at once
AfterCap(t, rest) ==
  LET c == t.c
  IN
  IF t.v.ok
    THEN /\ calls' = [calls EXCEPT ![c].returned = Some(t.v.val), ![c].cpc = "awaitGet"]
         /\ microQ' = GetQ(c, calls[c].kind, t.v.val.id, rest)
         /\ pendingIO' = GetIO(c, pendingIO)
         /\ UNCHANGED <<nextIds, jobs, statusLog>>
    ELSE /\ calls' = [calls EXCEPT ![c].cpc = "done"]
         /\ microQ' = rest
         /\ UNCHANGED <<nextIds, jobs, statusLog, pendingIO>>

AfterGet(t, rest) ==
  /\ calls' = [calls EXCEPT ![t.c].cpc = "done",
                            ![t.c].got = IF t.v.ok THEN t.v.val ELSE Null]
  /\ microQ' = rest
  /\ UNCHANGED <<nextIds, jobs, statusLog, pendingIO>>

\* MemStorage.update<Job> after `await this.get<Job>(id)`: not found, or
\* merge over the record that was read and set
MemUpdate(t, rest) ==
  LET c == t.c
      kind == calls[c].kind
  IN
  IF ~IsSet(t.v)
    THEN /\ microQ' = Append(rest, Task(c, "afterUpdate", Err(NotFoundMsg), Null))
         /\ UNCHANGED <<nextIds, jobs, statusLog, calls, pendingIO>>
    ELSE /\ StoreJob(kind, Merge(t.v[1], t.p))
         /\ microQ' = Append(rest, Task(c, "afterUpdate", Ok(Merge(t.v[1], t.p)), Null))
         /\ UNCHANGED <<nextIds, calls, pendingIO>>

\* catch (error) { await storage.update<Job>(job.id, {status: 'failed', error: error.message}) }
Catch(c, msg, rest) ==
  /\ calls' = [calls EXCEPT ![c].ppc = "awaitFailed", ![c].err = Some(msg)]
  /\ microQ' = UpdateQ(c, calls[c].kind, calls[c].job[1].id, FailedUpdate(msg), rest)
  /\ pendingIO' = UpdateIO(c, FailedUpdate(msg), pendingIO)

\* handle<Job> resumes after one of its three awaited updates
AfterUpdate(t, rest) ==
  LET c == t.c
      pc == calls[c].ppc
  IN
  /\ UNCHANGED <<nextIds, jobs, statusLog>>
  /\ CASE pc = "awaitProcessing" /\ t.v.ok ->
            /\ calls' = [calls EXCEPT ![c].ppc = "working"]
            /\ microQ' = rest
            /\ pendingIO' = pendingIO \cup {[c |-> c, op |-> "work", p |-> Null]}
       [] pc \in {"awaitProcessing", "awaitCompleted"} /\ ~t.v.ok ->
            Catch(c, t.v.val, rest)
       [] pc \in {"awaitCompleted", "awaitFailed"} /\ t.v.ok ->
            /\ calls' = [calls EXCEPT ![c].ppc = "resolved"]
            /\ microQ' = rest
            /\ UNCHANGED pendingIO
       [] OTHER ->
            \* the update in the catch block threw: handle<Job>'s promise rejects
            \* and the dispatcher's .catch logs it
            /\ calls' = [calls EXCEPT ![c].ppc = "rejected"]
            /\ microQ' = rest
            /\ UNCHANGED pendingIO

\* handle<Job> resumes after its unit of work
AfterWork(t, rest) ==
  LET c == t.c
  IN
  /\ UNCHANGED <<nextIds, jobs, statusLog>>
  /\ IF t.v.ok
       THEN /\ calls' = [calls EXCEPT ![c].ppc = "awaitCompleted"]
            /\ microQ' = UpdateQ(c, calls[c].kind, calls[c].job[1].id,
                                 CompletedUpdate(t.v.val), rest)
            /\ pendingIO' = UpdateIO(c, CompletedUpdate(t.v.val), pendingIO)
       ELSE Catch(c, t.v.val, rest)

\* the event loop runs the microtask at the head of the queue
HeadIs(k) == microQ # <<>> /\ Head(microQ).k = k

RunAfterCreate ==
  /\ HeadIs("afterCreate")
  /\ AfterCreate(Head(microQ), Tail(microQ))
  /\ JobFrame

RunAfterCap ==
  /\ HeadIs("afterCap")
  /\ AfterCap(Head(microQ), Tail(microQ))
  /\ JobFrame

RunAfterGet ==
  /\ HeadIs("afterGet")
  /\ AfterGet(Head(microQ), Tail(microQ))
  /\ JobFrame

RunMemUpdate ==
  /\ HeadIs("memUpdate")
  /\ MemUpdate(Head(microQ), Tail(microQ))
  /\ JobFrame

RunAfterUpdate ==
  /\ HeadIs("afterUpdate")
  /\ AfterUpdate(Head(microQ), Tail(microQ))
  /\ JobFrame

RunAfterWork ==
  /\ HeadIs("afterWork")
  /\ AfterWork(Head(microQ), Tail(microQ))
  /\ JobFrame


\* ------------------------------------------------------------ macrotasks
\* The continuation a completed external operation resumes.
ContinuationOf(op) ==
  CASE op = "insert" -> "afterCreate"
    [] op = "update" -> "afterUpdate"
    [] op = "select" -> "afterGet"
    [] OTHER -> "afterWork"

\* the database executes one statement and its result arrives
DbExec(io) ==
  LET c == io.c
      kind == calls[c].kind
  IN
  /\ microQ = <<>>
  /\ io.op \in {"insert", "update", "select"}
  /\ pendingIO' = pendingIO \ {io}
  /\ CASE io.op = "insert" ->
            /\ nextIds' = [nextIds EXCEPT ![kind] = AllocNext(@)]
            /\ StoreJob(kind, NewJob(nextIds[kind], 1, kind))
            /\ microQ' = <<Task(c, "afterCreate", Ok(NewJob(nextIds[kind], 1, kind)), Null)>>
       [] io.op = "update" ->
            LET id == calls[c].job[1].id
            IN IF id \in Live(kind)
                 THEN /\ StoreJob(kind, Merge(jobs[kind][id], io.p))
                      /\ microQ' = <<Task(c, "afterUpdate", Ok(Merge(jobs[kind][id], io.p)), Null)>>
                      /\ UNCHANGED nextIds
                 ELSE /\ microQ' = <<Task(c, "afterUpdate", Err(NotFoundMsg), Null)>>
                      /\ UNCHANGED <<nextIds, jobs, statusLog>>
       [] OTHER ->
            /\ microQ' = <<Task(c, "afterGet", Ok(Snapshot(kind, calls[c].job[1].id)), Null)>>
            /\ UNCHANGED <<nextIds, jobs, statusLog>>
  /\ UNCHANGED calls
  /\ JobFrame

\* the statement is lost with the connection before it takes effect: its
\* promise rejects
DbFail(io) ==
  /\ microQ = <<>>
  /\ io.op \in {"insert", "update", "select"}
  /\ pendingIO' = pendingIO \ {io}
  /\ microQ' = <<Task(io.c, ContinuationOf(io.op), Err(DbError), Null)>>
  /\ UNCHANGED <<nextIds, jobs, statusLog, calls>>
  /\ JobFrame

\* separateStems / cloneVoice / generateMusicFile resolves with the output
WorkResolve(io) ==
  /\ microQ = <<>>
  /\ io.op = "work"
  /\ pendingIO' = pendingIO \ {io}
  /\ microQ' = <<Task(io.c, "afterWork",
                      Ok(WorkOutput(calls[io.c].kind)), Null)>>
  /\ UNCHANGED <<nextIds, jobs, statusLog, calls>>
  /\ JobFrame

\* ... or throws (adapter rejection, file error)
WorkReject(io, msg) ==
  /\ microQ = <<>>
  /\ io.op = "work"
  /\ pendingIO' = pendingIO \ {io}
  /\ microQ' = <<Task(io.c, "afterWork", Err(msg), Null)>>
  /\ UNCHANGED <<nextIds, jobs, statusLog, calls>>
  /\ JobFrame

\* ------------------------------------------------------------ entity store
\* setupDemoData(): one project, five tracks, eight clips, three effects
DemoProjects == 1
DemoTracks == 5
DemoAudioClips == 8
DemoEffects == 3

DemoCount(t) ==
  CASE t = "projects" -> DemoProjects
    [] t = "tracks" -> DemoTracks
    [] t = "audioClips" -> DemoAudioClips
    [] OTHER -> DemoEffects

\* create<Entity>: { ...insert, id }
NewRec(id, ins) == [id |-> id, parent |-> ins.parent, name |-> ins.name]

\* the documents a client inserts
Inserts == {[parent |-> 1, name |-> "n0"]}

\* the ids of the records created after start-up
Window(t) == (DemoCount(t) + 1)..(DemoCount(t) + MaxCreates)

\* req.body of PUT /api/<entity>/:id is handed to update<Entity> as it is:
\* Partial<Entity> admits every field, id included.  The clients send a new
\* name, or the id of the last record the run can create.
Partials(t) == {[name |-> "n1"], [id |-> DemoCount(t) + MaxCreates]}

\* the ids the clients address: those of records created after start-up that
\* are stored or were stored
Addressable(t) == {id \in Window(t) : id < nextIds[t] \/ id \in DOMAIN recs[t]}

\* Map.set(k, r) / Map.delete(k)
Put(m, k, r) == [i \in DOMAIN m \cup {k} |-> IF i = k THEN r ELSE m[i]]
Remove(m, k) == [i \in DOMAIN m \ {k} |-> m[i]]

\* this.<entity>.get(id): the record, or undefined
SnapshotRec(t, id) == IF id \in DOMAIN recs[t] THEN Some(recs[t][id]) ELSE Null

ETask(c, k, t, v, p) == [c |-> c, k |-> k, t |-> t, v |-> v, p |-> p]

\* the clients exercise one entity type in a run; the others keep their demo data
OneType(t) ==
  /\ \A n \in 1..Len(createLog) : createLog[n].type = t
  /\ \A i \in 1..Len(microQ) : microQ[i].t = t
  /\ \A io \in pendingIO : io.t = t
  /\ \A u \in ETypes \ {t} : recs[u] = <<>>

\* a create call as the history keeps it: the id it returned, whether it has
\* returned, and the calls that had returned when it was made
LogEntry(t, id) ==
  [type |-> t, id |-> id, ret |-> FALSE,
   after |-> {m \in 1..Len(createLog) : createLog[m].ret}]

\* const id = this.nextIds.<entity>++ / the serial column's default: the id
\* a new record takes
TakeIdMutSize(t) == DemoCount(t) + Cardinality(DOMAIN recs[t]) + 1

TakeIdMutFirstFree(t) ==
  CHOOSE i \in Window(t) \cup {DemoCount(t) + MaxCreates + 1} :
    /\ i \notin DOMAIN recs[t]
    /\ \A j \in Window(t) : j < i => j \in DOMAIN recs[t]

TakeId(t) == nextIds[t]

\* storage.create<Entity>(insert), up to its first await.  MemStorage takes
\* the id, stores the record and returns a resolved promise; DatabaseStorage
\* sends the INSERT.
CreateEntity(t, ins) ==
  /\ OneType(t)
  /\ Len(createLog) < MaxCreates
  /\ IF backend = "mem"
       THEN /\ nextIds' = [nextIds EXCEPT ![t] = AllocNext(@)]
            /\ recs' = [recs EXCEPT ![t] = Put(@, TakeId(t), NewRec(TakeId(t), ins))]
            /\ createLog' = Append(createLog, LogEntry(t, Some(TakeId(t))))
            /\ microQ' = Append(microQ, ETask(Len(createLog) + 1, "createReturn", t, Null, Null))
            /\ UNCHANGED pendingIO
       ELSE /\ createLog' = Append(createLog, LogEntry(t, Null))
            /\ pendingIO' = pendingIO \cup
                 {[c |-> Len(createLog) + 1, op |-> "insertE", t |-> t, p |-> ins]}
            /\ UNCHANGED <<nextIds, recs, microQ>>
  /\ UNCHANGED updates
  /\ StoreFrame

\* the caller of create<Entity> resumes with the record (or the rejection)
CreateReturn ==
  /\ HeadIs("createReturn")
  /\ createLog' = [createLog EXCEPT ![Head(microQ).c].ret = TRUE]
  /\ microQ' = Tail(microQ)
  /\ UNCHANGED <<nextIds, recs, pendingIO, updates>>
  /\ StoreFrame

\* storage.update<Entity>(id, partial), up to its first await.  MemStorage
\* reads the record (await this.get<Entity>(id)); DatabaseStorage sends the UPDATE.
UpdateEntity(t, id, partial) ==
  /\ OneType(t)
  /\ updates < MaxUpdates
  /\ updates' = updates + 1
  /\ IF backend = "mem"
       THEN /\ microQ' = Append(microQ, ETask(id, "memUpdateE", t, SnapshotRec(t, id), partial))
            /\ UNCHANGED pendingIO
       ELSE /\ pendingIO' = pendingIO \cup {[c |-> id, op |-> "updateE", t |-> t, p |-> partial]}
            /\ UNCHANGED microQ
  /\ UNCHANGED <<nextIds, recs, createLog>>
  /\ StoreFrame

\* MemStorage.update<Entity> after its await: throw not found, or set the
\* merge of the record that was read and the partial document under key id
MemUpdateEntity ==
  /\ HeadIs("memUpdateE")
  /\ LET u == Head(microQ)
     IN recs' = IF IsSet(u.v)
                  THEN [recs EXCEPT ![u.t] = Put(@, u.c, Merge(u.v[1], u.p))]
                  ELSE recs
  /\ microQ' = Tail(microQ)
  /\ UNCHANGED <<nextIds, createLog, pendingIO, updates>>
  /\ StoreFrame

\* update calls on the in-memory store that have not written yet
MaxInFlight == 2

InFlight == {i \in 1..Len(microQ) : microQ[i].k = "memUpdateE"}

\* the partial documents of the callers that update a record side by side:
\* a new name, or a new parent
RacePartials == {[name |-> "n1"], [parent |-> 2]}

\* MemStorage.update<Entity>(id, partial) called while earlier update calls
\* have not resumed from their await (calls made in one turn of the event
\* loop, as Promise.all does): the record is read now, the write follows in
\* a later microtask
UpdateInFlight(t, id, partial) ==
  /\ backend = "mem"
  /\ OneType(t)
  /\ Cardinality(InFlight) < MaxInFlight
  /\ microQ' = Append(microQ, ETask(id, "memUpdateE", t, SnapshotRec(t, id), partial))
  /\ UNCHANGED <<nextIds, recs, createLog, pendingIO, updates>>
  /\ StoreFrame

\* storage.delete<Entity>(id): MemStorage deletes the key at once;
\* DatabaseStorage sends the DELETE
DeleteEntity(t, id) ==
  /\ OneType(t)
  /\ IF backend = "mem"
       THEN /\ recs' = [recs EXCEPT ![t] = Remove(@, id)]
            /\ UNCHANGED pendingIO
       ELSE /\ pendingIO' = pendingIO \cup {[c |-> id, op |-> "deleteE", t |-> t, p |-> Null]}
            /\ UNCHANGED recs
  /\ UNCHANGED <<nextIds, createLog, microQ, updates>>
  /\ StoreFrame

\* the database executes an INSERT: the serial column takes the next value
\* of the sequence (consumed even when the row is refused by the primary key)
DbInsertEntity(io) ==
  /\ microQ = <<>>
  /\ io.op = "insertE"
  /\ pendingIO' = pendingIO \ {io}
  /\ nextIds' = [nextIds EXCEPT ![io.t] = AllocNext(@)]
  /\ IF TakeId(io.t) \in DOMAIN recs[io.t]
       THEN UNCHANGED <<recs, createLog>>
       ELSE /\ recs' = [recs EXCEPT ![io.t] = Put(@, TakeId(io.t), NewRec(TakeId(io.t), io.p))]
            /\ createLog' = [createLog EXCEPT ![io.c].id = Some(TakeId(io.t))]
  /\ microQ' = <<ETask(io.c, "createReturn", io.t, Null, Null)>>
  /\ UNCHANGED updates
  /\ StoreFrame

\* the database executes an UPDATE ... SET <partial> WHERE id = <id>; a row
\* whose new id is taken is refused by the primary key
DbUpdateEntity(io) ==
  /\ microQ = <<>>
  /\ io.op = "updateE"
  /\ pendingIO' = pendingIO \ {io}
  /\ recs' =
       IF io.c \notin DOMAIN recs[io.t]
         THEN recs
         ELSE LET row == Merge(recs[io.t][io.c], io.p)
              IN IF row.id # io.c /\ row.id \in DOMAIN recs[io.t]
                   THEN recs
                   ELSE [recs EXCEPT ![io.t] = Put(Remove(@, io.c), row.id, row)]
  /\ UNCHANGED <<nextIds, createLog, microQ, updates>>
  /\ StoreFrame

\* the database executes a DELETE ... WHERE id = <id>
DbDeleteEntity(io) ==
  /\ microQ = <<>>
  /\ io.op = "deleteE"
  /\ pendingIO' = pendingIO \ {io}
  /\ recs' = [recs EXCEPT ![io.t] = Remove(@, io.c)]
  /\ UNCHANGED <<nextIds, createLog, microQ, updates>>
  /\ StoreFrame

\* the statement is lost with the connection before it takes effect: its
\* promise rejects
DbFailEntity(io) ==
  /\ microQ = <<>>
  /\ io.op \in {"insertE", "updateE", "deleteE"}
  /\ pendingIO' = pendingIO \ {io}
  /\ microQ' = IF io.op = "insertE"
                 THEN <<ETask(io.c, "createReturn", io.t, Null, Null)>>
                 ELSE microQ
  /\ UNCHANGED <<nextIds, recs, createLog, updates>>
  /\ StoreFrame

\* ------------------------------------------- the two stores, side by side
\* the tables of the store: the entity maps and the job maps
Tables == ETypes \cup Kinds

\* the table a record's foreign key points into: projects.userId,
\* tracks.projectId, audioClips.trackId, effects.trackId, <job>.projectId
ParentOf(t) ==
  CASE t = "projects" -> "users"
    [] t = "tracks" -> "projects"
    [] t \in {"audioClips", "effects"} -> "tracks"
    [] OTHER -> "projects"

\* projects and jobs carry updatedAt; tracks, clips and effects do not
HasUpdatedAt(t) == t = "projects" \/ t \in Kinds

\* bpm: integer("bpm").notNull().default(120)
DefaultBpm == 120
DefaultTimeSignature == "4/4"

\* the number of records setupDemoData() puts into a table
Seeded(t) == IF t \in ETypes THEN DemoCount(t) ELSE 0

\* setupDemoData(): every track belongs to the demo project, the clips sit
\* on tracks 1, 1, 2, 3, 4, 4, 4, 5 and the effects on track 1
DemoParent(t, i) == IF t = "audioClips" THEN <<1, 1, 2, 3, 4, 4, 4, 5>>[i] ELSE 1

DemoRec(t, i) ==
  LET rec == [id |-> i, parent |-> DemoParent(t, i), name |-> "demo", createdAt |-> 0]
  IN IF t = "projects"
       THEN [bpm |-> DefaultBpm, timeSignature |-> DefaultTimeSignature,
             updatedAt |-> 0] @@ rec
       ELSE rec

\* a store after start-up: the demo records, the counters after them
DemoStore ==
  [rows |-> [t \in Tables |-> [i \in 1..Seeded(t) |-> DemoRec(t, i)]],
   nextIds |-> [t \in Tables |-> Seeded(t) + 1]]

\* the ids that are live in a table; the demo user is the only user
LiveIds(s, t) == IF t = "users" THEN {1} ELSE DOMAIN s.rows[t]

NotFoundError == "not found"
ForeignKeyError == "violates foreign key constraint"

\* MemStorage.create<X>: { ...insert, id, createdAt } and, for projects,
\* updatedAt; for jobs, status, output, error and updatedAt
MemNewRecord(t, id, ins, now) ==
  LET rec == [id |-> id, createdAt |-> now] @@ ins
  IN IF t = "projects"
       THEN [updatedAt |-> now] @@ rec
       ELSE IF t \in Kinds
              THEN [status |-> "pending", output |-> Null, error |-> Null,
                    updatedAt |-> now] @@ rec
              ELSE rec

MemCreate(s, t, ins, now) ==
  LET id == s.nextIds[t]
      rec == MemNewRecord(t, id, ins, now)
  IN [s |-> [rows |-> [s.rows EXCEPT ![t] = Put(@, id, rec)],
             nextIds |-> [s.nextIds EXCEPT ![t] = AllocNext(@)]],
      r |-> Ok(rec)]

\* the values a column takes when the INSERT names none
ColumnDefaults(t) ==
  IF t = "projects"
    THEN [bpm |-> DefaultBpm, timeSignature |-> DefaultTimeSignature]
    ELSE IF t \in Kinds THEN [output |-> Null, error |-> Null] ELSE <<>>

\* DatabaseStorage.create<X>: .values({ ...insert, createdAt: now }) with
\* updatedAt for projects and jobs and status for jobs; the serial id and the
\* column defaults come from the table
DbNewRow(t, id, ins, now) ==
  LET vals == [createdAt |-> now] @@ ins
      full == IF t = "projects"
                THEN [updatedAt |-> now] @@ vals
                ELSE IF t \in Kinds
                       THEN [status |-> "pending", updatedAt |-> now] @@ vals
                       ELSE vals
  IN [id |-> id] @@ full @@ ColumnDefaults(t)

\* the INSERT takes the next value of the sequence, and the row is refused
\* when its parent is not in the referenced table
DbCreate(s, t, ins, now) ==
  LET id == s.nextIds[t]
      row == DbNewRow(t, id, ins, now)
      seq == [s.nextIds EXCEPT ![t] = AllocNext(@)]
  IN IF ins.parent \in LiveIds(s, ParentOf(t))
       THEN [s |-> [rows |-> [s.rows EXCEPT ![t] = Put(@, id, row)], nextIds |-> seq],
             r |-> Ok(row)]
       ELSE [s |-> [rows |-> s.rows, nextIds |-> seq], r |-> Err(ForeignKeyError)]

\* { ...record, ...partial } and, where the table has it, updatedAt: new Date()
UpdatedMutStampsCreatedAt(t, rec, partial, now) ==
  [Merge(rec, partial) EXCEPT !.createdAt = now]

Updated(t, rec, partial, now) ==
  IF HasUpdatedAt(t)
    THEN [Merge(rec, partial) EXCEPT !.updatedAt = now]
    ELSE Merge(rec, partial)

\* MemStorage.update<X>: throw when the record is not there
MemUpdateOpMutUpsert(s, t, id, partial, now) ==
  [s |-> [s EXCEPT !.rows[t] = Put(@, id, partial)], r |-> Ok(partial)]

MemUpdateOp(s, t, id, partial, now) ==
  IF id \in DOMAIN s.rows[t]
    THEN LET rec == Updated(t, s.rows[t][id], partial, now)
         IN [s |-> [s EXCEPT !.rows[t] = Put(@, id, rec)], r |-> Ok(rec)]
    ELSE [s |-> s, r |-> Err(NotFoundError)]

\* DatabaseStorage.update<X>: UPDATE ... SET ... WHERE id = <id> RETURNING;
\* throw when no row comes back; a new parent must be in the referenced table
DbUpdateOp(s, t, id, partial, now) ==
  IF id \in DOMAIN s.rows[t]
    THEN LET row == Updated(t, s.rows[t][id], partial, now)
         IN IF row.parent \in LiveIds(s, ParentOf(t))
              THEN [s |-> [s EXCEPT !.rows[t] = Put(@, id, row)], r |-> Ok(row)]
              ELSE [s |-> s, r |-> Err(ForeignKeyError)]
    ELSE [s |-> s, r |-> Err(NotFoundError)]

\* MemStorage.delete<X>: Map.delete(id)
MemDeleteOp(s, t, id) ==
  [s |-> [s EXCEPT !.rows[t] = Remove(@, id)], r |-> Ok(id \in DOMAIN s.rows[t])]

\* the rows of other tables that reference row id of table t
Referencing(s, t, id) ==
  {<<c, k>> \in Tables \X (1..(DemoAudioClips + MaxOps)) :
     /\ ParentOf(c) = t
     /\ k \in DOMAIN s.rows[c]
     /\ s.rows[c][k].parent = id}

\* DatabaseStorage.delete<X>: DELETE ... WHERE id = <id>, rowCount > 0.  The
\* tables are created with REFERENCES <parent>(id) and no ON DELETE clause:
\* a row that is referenced cannot be deleted
DbDeleteOp(s, t, id) ==
  IF id \in DOMAIN s.rows[t] /\ Referencing(s, t, id) # {}
    THEN [s |-> s, r |-> Err(ForeignKeyError)]
    ELSE [s |-> [s EXCEPT !.rows[t] = Remove(@, id)], r |-> Ok(id \in DOMAIN s.rows[t])]

\* get<X>(id): the record, or undefined
GetOp(s, t, id) ==
  [s |-> s, r |-> Ok(IF id \in DOMAIN s.rows[t] THEN Some(s.rows[t][id]) ELSE Null)]

\* get<X>sBy<Parent>Id(p): the records whose parent key is p, by their key
ListOpMutAll(s, t, p) == [s |-> s, r |-> Ok(s.rows[t])]

ListOp(s, t, p) ==
  [s |-> s,
   r |-> Ok([k \in {i \in DOMAIN s.rows[t] : s.rows[t][i].parent = p} |-> s.rows[t][k]])]

\* the time a call reads from the clock: the calls are made one after the
\* other, each at a later time than the one before; start-up was at time 0
Now == ops + 1

\* a time after every reading of the clock
Later == MaxOps + 2

\* an id that no table ever holds
Missing == DemoAudioClips + MaxOps + 1

\* the documents the clients insert: a live parent or a parent that does not
\* exist; a project with or without bpm and timeSignature
SeqInserts(t) ==
  {[parent |-> 1, name |-> "n0"], [parent |-> Missing, name |-> "n0"]}
    \cup IF t = "projects"
           THEN {[parent |-> 1, name |-> "n0", bpm |-> 90, timeSignature |-> "3/4"]}
           ELSE {}

\* the ids the clients address: the first demo record and the first record
\* created after start-up
SeqIds(t) == {1, Seeded(t) + 1}

\* the partial documents of the updates: Partial<X> admits every field
SeqPartials == {[name |-> "n1"], [createdAt |-> Later], [parent |-> 2]}

\* the parent keys the clients list by
SeqParents == {1, 2}

\* the clients exercise one table in a run
Focus(t) == ops = 0 \/ last.t = t

\* the last call and what each store answered
Done(op, t, key, arg, m, d) ==
  [op |-> op, t |-> t, key |-> key, arg |-> arg, at |-> Now, mem |-> m.r, pg |-> d.r]

SeqFrame ==
  UNCHANGED <<backend, nextIds, jobs, calls, microQ, pendingIO, statusLog,
              recs, createLog, updates, reqs, boot, made, moods, files, tracksRef>>

\* await storage.create<X>(insert), on either store
SeqCreate(t, ins) ==
  /\ ops < MaxOps
  /\ Focus(t)
  /\ LET m == MemCreate(mem, t, ins, Now)
         d == DbCreate(pg, t, ins, Now)
     IN /\ mem' = m.s
        /\ pg' = d.s
        /\ last' = Done("create", t, 0, ins, m, d)
  /\ ops' = ops + 1
  /\ SeqFrame

\* await storage.update<X>(id, partial)
SeqUpdate(t, id, partial) ==
  /\ ops < MaxOps
  /\ Focus(t)
  /\ LET m == MemUpdateOp(mem, t, id, partial, Now)
         d == DbUpdateOp(pg, t, id, partial, Now)
     IN /\ mem' = m.s
        /\ pg' = d.s
        /\ last' = Done("update", t, id, partial, m, d)
  /\ ops' = ops + 1
  /\ SeqFrame

\* await storage.delete<X>(id)
SeqDelete(t, id) ==
  /\ ops < MaxOps
  /\ Focus(t)
  /\ LET m == MemDeleteOp(mem, t, id)
         d == DbDeleteOp(pg, t, id)
     IN /\ mem' = m.s
        /\ pg' = d.s
        /\ last' = Done("delete", t, id, <<>>, m, d)
  /\ ops' = ops + 1
  /\ SeqFrame

\* await storage.get<X>(id)
SeqGet(t, id) ==
  /\ ops < MaxOps
  /\ Focus(t)
  /\ LET m == GetOp(mem, t, id)
         d == GetOp(pg, t, id)
     IN /\ mem' = m.s
        /\ pg' = d.s
        /\ last' = Done("get", t, id, <<>>, m, d)
  /\ ops' = ops + 1
  /\ SeqFrame

\* await storage.get<X>sBy<Parent>Id(p)
SeqList(t, p) ==
  /\ ops < MaxOps
  /\ Focus(t)
  /\ LET m == ListOp(mem, t, p)
         d == ListOp(pg, t, p)
     IN /\ mem' = m.s
        /\ pg' = d.s
        /\ last' = Done("list", t, p, <<>>, m, d)
  /\ ops' = ops + 1
  /\ SeqFrame

\* ------------------------------------------------ PUT and DELETE requests
\* a request slot before its request arrives
IdleReq == [kind |-> "none", t |-> "none", id |-> 0, pc |-> "idle", upd |-> Null, status |-> 0]

Reqs == 1..MaxReqs

\* the next request to arrive
NextReq(r) == reqs[r].pc = "idle" /\ \A q \in Reqs : q < r => reqs[q].pc # "idle"

\* req.body of the PUT requests
PutBody == [name |-> "n1"]

\* res.status(code): the request is answered
Answer(r, code) == reqs' = [reqs EXCEPT ![r].pc = "done", ![r].status = code]

\* the status a PUT handler answers with when the store's update has thrown:
\* catch (error) { res.status(400) }
PutCatch(e) == 400

HttpFrame ==
  UNCHANGED <<backend, nextIds, jobs, calls, statusLog, recs, createLog, updates, last, ops,
              boot, made, moods, files, tracksRef>>

\* PUT /api/<entity>/:id up to its first await: storage.get<X>(id)
PutArrives(r, t, id) ==
  /\ microQ = <<>>
  /\ NextReq(r)
  /\ reqs' = [reqs EXCEPT ![r] = [IdleReq EXCEPT !.kind = "put", !.t = t, !.id = id, !.pc = "open"]]
  /\ IF backend = "mem"
       THEN /\ microQ' = <<ETask(r, "putAfterGet", t, GetOp(mem, t, id).r.val, Null)>>
            /\ UNCHANGED pendingIO
       ELSE /\ pendingIO' = pendingIO \cup {[c |-> r, op |-> "selectR", t |-> t, p |-> Null]}
            /\ UNCHANGED microQ
  /\ UNCHANGED <<mem, pg>>
  /\ HttpFrame

\* DELETE /api/<entity>/:id up to its await: storage.delete<X>(id).
\* MemStorage deletes the key at once.
DeleteArrives(r, t, id) ==
  /\ microQ = <<>>
  /\ NextReq(r)
  /\ reqs' = [reqs EXCEPT ![r] = [IdleReq EXCEPT !.kind = "delete", !.t = t, !.id = id, !.pc = "open"]]
  /\ IF backend = "mem"
       THEN /\ mem' = MemDeleteOp(mem, t, id).s
            /\ microQ' = <<ETask(r, "afterDelete", t, MemDeleteOp(mem, t, id).r, Null)>>
            /\ UNCHANGED pendingIO
       ELSE /\ pendingIO' = pendingIO \cup {[c |-> r, op |-> "deleteR", t |-> t, p |-> Null]}
            /\ UNCHANGED <<mem, microQ>>
  /\ UNCHANGED pg
  /\ HttpFrame

\* the PUT handler resumes with the record: 404 when there is none, else it
\* calls storage.update<X>(id, req.body), which runs up to its own await
\* (MemStorage reads the record; DatabaseStorage sends the UPDATE)
PutAfterGet ==
  /\ HeadIs("putAfterGet")
  /\ LET u == Head(microQ)
         r == u.c
     IN IF ~IsSet(u.v)
          THEN /\ Answer(r, 404)
               /\ microQ' = Tail(microQ)
               /\ UNCHANGED pendingIO
          ELSE /\ UNCHANGED reqs
               /\ IF backend = "mem"
                    THEN /\ microQ' = Append(Tail(microQ),
                                ETask(r, "putMemUpdate", u.t, GetOp(mem, u.t, reqs[r].id).r.val, PutBody))
                         /\ UNCHANGED pendingIO
                    ELSE /\ microQ' = Tail(microQ)
                         /\ pendingIO' = pendingIO \cup
                              {[c |-> r, op |-> "updateR", t |-> u.t, p |-> PutBody]}
  /\ UNCHANGED <<mem, pg>>
  /\ HttpFrame

\* MemStorage.update<X> after its await: throw not found, or set the merge
\* of the record that was read and the partial document
PutMemUpdate ==
  /\ HeadIs("putMemUpdate")
  /\ LET u == Head(microQ)
         r == u.c
         id == reqs[r].id
         res == IF IsSet(u.v)
                  THEN Ok(Updated(u.t, u.v[1], u.p, Now))
                  ELSE Err(NotFoundError)
     IN /\ mem' = IF res.ok THEN [mem EXCEPT !.rows[u.t] = Put(@, id, res.val)] ELSE mem
        /\ microQ' = Append(Tail(microQ), ETask(r, "putAfterUpdate", u.t, res, Null))
        /\ reqs' = [reqs EXCEPT ![r].upd = Some(res)]
  /\ UNCHANGED <<pg, pendingIO>>
  /\ HttpFrame

\* the PUT handler resumes after the update: res.json(updated), or the
\* catch block
PutAfterUpdate ==
  /\ HeadIs("putAfterUpdate")
  /\ LET u == Head(microQ)
     IN Answer(u.c, IF u.v.ok THEN 200 ELSE PutCatch(u.v.val))
  /\ microQ' = Tail(microQ)
  /\ UNCHANGED <<mem, pg, pendingIO>>
  /\ HttpFrame

\* the DELETE handler resumes: 204, 404 when the store returned false, 400
\* when it threw
AfterDelete ==
  /\ HeadIs("afterDelete")
  /\ LET u == Head(microQ)
     IN Answer(u.c, IF ~u.v.ok THEN 400 ELSE IF u.v.val THEN 204 ELSE 404)
  /\ microQ' = Tail(microQ)
  /\ UNCHANGED <<mem, pg, pendingIO>>
  /\ HttpFrame

\* the database executes a statement of a handler, whose await resumes
DbStatement(io) ==
  /\ microQ = <<>>
  /\ io.op \in {"selectR", "updateR", "deleteR"}
  /\ pendingIO' = pendingIO \ {io}
  /\ LET id == reqs[io.c].id
         d == CASE io.op = "selectR" -> GetOp(pg, io.t, id)
                [] io.op = "updateR" -> DbUpdateOp(pg, io.t, id, io.p, Now)
                [] OTHER -> DbDeleteOp(pg, io.t, id)
     IN /\ pg' = d.s
        /\ microQ' =
             <<ETask(io.c,
                     CASE io.op = "selectR" -> "putAfterGet"
                       [] io.op = "updateR" -> "putAfterUpdate"
                       [] OTHER -> "afterDelete",
                     io.t, IF io.op = "selectR" THEN d.r.val ELSE d.r, Null)>>
        /\ reqs' = IF io.op = "updateR" THEN [reqs EXCEPT ![io.c].upd = Some(d.r)] ELSE reqs
  /\ UNCHANGED mem
  /\ HttpFrame

\* ----------------------------------------------------------------- start-up
\* the process before db.ts is loaded: no `storage` binding yet, nothing
\* assigned to global.storage
StartBoot == [phase |-> "start", storage |-> "none", global |-> "none"]

\* (global as any).storage = dbStorage: the property of the global object
\* is set; the binding that routes.ts imported stays what it was
SwitchStorageMutRebinds(b) == [b EXCEPT !.storage = "db", !.global = "db", !.phase = "up"]

SwitchStorage(b) == [b EXCEPT !.global = "db", !.phase = "up"]

BootFrame ==
  UNCHANGED <<backend, nextIds, jobs, calls, microQ, pendingIO, statusLog, recs,
              createLog, updates, last, ops, reqs, moods, files, tracksRef>>

\* db.ts is loaded: it throws when DATABASE_URL is not set, and the modules
\* that import it (storage.ts, routes.ts) never finish loading
ImportDb(configured) ==
  /\ boot.phase = "start"
  /\ boot' = [boot EXCEPT !.phase = IF configured THEN "loaded" ELSE "crashed"]
  /\ UNCHANGED <<mem, pg, made>>
  /\ BootFrame

\* export const storage = new MemStorage(); setupDatabase() is called and
\* awaits pool.connect()
NewStorage ==
  /\ boot.phase = "loaded"
  /\ boot' = [boot EXCEPT !.phase = "connecting", !.storage = "mem"]
  /\ UNCHANGED <<mem, pg, made>>
  /\ BootFrame

\* pool.connect() resolves, or rejects: setupDatabase returns false
Connected(ok) ==
  /\ boot.phase = "connecting"
  /\ boot' = [boot EXCEPT !.phase = IF ok THEN "migrating" ELSE "up"]
  /\ UNCHANGED <<mem, pg, made>>
  /\ BootFrame

\* runMigrations() returns true, or false
Migrated(ok) ==
  /\ boot.phase = "migrating"
  /\ boot' = [boot EXCEPT !.phase = IF ok THEN "demo" ELSE "up"]
  /\ UNCHANGED <<mem, pg, made>>
  /\ BootFrame

\* await dbStorage.setupDemoData() returns and the switch is made, or it
\* throws and the catch block logs the fall-back
DemoLoaded(ok) ==
  /\ boot.phase = "demo"
  /\ boot' = IF ok THEN SwitchStorage(boot) ELSE [boot EXCEPT !.phase = "up"]
  /\ UNCHANGED <<mem, pg, made>>
  /\ BootFrame

\* a POST route creates a record in the store its `storage` binding names;
\* a job route hands that store to the job's processor
ApiCreate(t) ==
  /\ boot.storage # "none"
  /\ Len(made) < MaxCreates
  /\ LET ins == [parent |-> 1, name |-> "n0"]
         c == IF boot.storage = "mem"
                THEN MemCreate(mem, t, ins, Len(made) + 1)
                ELSE DbCreate(pg, t, ins, Len(made) + 1)
     IN /\ mem' = IF boot.storage = "mem" THEN c.s ELSE mem
        /\ pg' = IF boot.storage = "mem" THEN pg ELSE c.s
        /\ made' = Append(made, [t |-> t, id |-> c.r.val.id, phase |-> boot.phase,
                                 store |-> boot.storage, proc |-> boot.storage])
  /\ UNCHANGED boot
  /\ BootFrame

\* ---------------------------------------------------------------- mood tags
\* The join table audio_clip_mood_tags: rows (audioClipId, moodTagId, weight)
\* with the pair as primary key. The store's operations on it are declared
\* in IStorage; `moods.rows` is the table, `moods.hist` the calls made and
\* what each returned.
MoodClips == {1, 2}

MoodTags == {1, 2}

DuplicateKeyError == "duplicate key"

MoodAt(rows, clip, tag) ==
  {i \in 1..Len(rows) : rows[i].audioClipId = clip /\ rows[i].moodTagId = tag}

\* addMoodTagToAudioClip without the key: the row is appended also when the
\* pair has one
MoodAddMutNoKey(rows, ins, replace) ==
  [s |-> Append(rows, ins), r |-> Ok(ins)]

\* addMoodTagToAudioClip: one row per pair; on a pair that has a row either
\* the row is replaced (a map keyed by the pair) or the insert is rejected
\* (the primary key)
MoodAdd(rows, ins, replace) ==
  LET at == MoodAt(rows, ins.audioClipId, ins.moodTagId)
  IN IF at = {} THEN [s |-> Append(rows, ins), r |-> Ok(ins)]
     ELSE IF replace
       THEN [s |-> [i \in 1..Len(rows) |-> IF i \in at THEN ins ELSE rows[i]], r |-> Ok(ins)]
       ELSE [s |-> rows, r |-> Err(DuplicateKeyError)]

\* updateAudioClipMoodTagWeight: rewrites the weight of the pair's row, and
\* fails with not found when the pair has none
MoodSetWeight(rows, clip, tag, weight) ==
  LET at == MoodAt(rows, clip, tag)
  IN IF at = {} THEN [s |-> rows, r |-> Err(NotFoundError)]
     ELSE [s |-> [i \in 1..Len(rows) |->
                    IF i \in at THEN [rows[i] EXCEPT !.weight = weight] ELSE rows[i]],
           r |-> Ok([audioClipId |-> clip, moodTagId |-> tag, weight |-> weight])]

\* removeMoodTagFromAudioClip: whether a row was removed
MoodRemove(rows, clip, tag) ==
  [s |-> SelectSeq(rows, LAMBDA x : ~(x.audioClipId = clip /\ x.moodTagId = tag)),
   r |-> Ok(MoodAt(rows, clip, tag) # {})]

\* getAudioClipMoodTags: the clip's rows, each with its mood tag
MoodGet(rows, clip) ==
  LET mine == SelectSeq(rows, LAMBDA x : x.audioClipId = clip)
  IN [s |-> rows,
      r |-> Ok([i \in 1..Len(mine) |->
                  [audioClipId |-> mine[i].audioClipId, moodTagId |-> mine[i].moodTagId,
                   weight |-> mine[i].weight, moodTag |-> [id |-> mine[i].moodTagId]]])]

MoodFrame ==
  UNCHANGED <<backend, nextIds, jobs, calls, microQ, pendingIO, statusLog, recs,
              createLog, updates, mem, pg, last, ops, reqs, boot, made, files, tracksRef>>

\* awaited calls on the mood tag table in a run
MaxMoodOps == 4

\* one awaited call: the table after it, and the call with its result
MoodDone(op, clip, tag, weight, c) ==
  /\ Len(moods.hist) < MaxMoodOps
  /\ moods' = [rows |-> c.s,
               hist |-> Append(moods.hist, [op |-> op, clip |-> clip, tag |-> tag,
                                            weight |-> weight, r |-> c.r])]
  /\ MoodFrame

AddMoodTag(clip, tag, weight, replace) ==
  MoodDone("add", clip, tag, weight,
           MoodAdd(moods.rows, [audioClipId |-> clip, moodTagId |-> tag, weight |-> weight],
                   replace))

UpdateWeight(clip, tag, weight) ==
  MoodDone("update", clip, tag, weight, MoodSetWeight(moods.rows, clip, tag, weight))

RemoveMoodTag(clip, tag) ==
  MoodDone("remove", clip, tag, 0, MoodRemove(moods.rows, clip, tag))

GetMoodTags(clip) ==
  MoodDone("get", clip, 0, 0, MoodGet(moods.rows, clip))

\* -------------------------------------------------------------- output files
\* the values Date.now() returns in a run
MaxClock == 2

\* the names multer gave the uploaded files
Uploads == {"u1", "u2"}

\* the paths a processor writes: generated_music_<now>.wav,
\* cloned_voice_<now>.wav, and <upload>_<stem>_<now>.wav for each stem
OutputPaths(kind, upload, now) ==
  CASE kind = "music" -> {<<"music", "generated_music", now>>}
    [] kind = "voice" -> {<<"voice-cloning", "cloned_voice", now>>}
    [] OTHER -> {<<"stems", upload, s, now>> : s \in StemTypes}

FilesFrame ==
  UNCHANGED <<backend, nextIds, jobs, calls, microQ, pendingIO, statusLog, recs,
              createLog, updates, mem, pg, last, ops, reqs, boot, made, moods, tracksRef>>

\* a millisecond passes
ClockTick ==
  /\ files.now < MaxClock
  /\ files' = [files EXCEPT !.now = @ + 1]
  /\ FilesFrame

\* the processor of job c reads the clock and writes its output files
WriteOutput(c, kind, upload) ==
  /\ c \notin DOMAIN files.out
  /\ files' = [files EXCEPT !.out = @ @@ (c :> OutputPaths(kind, upload, files.now))]
  /\ FilesFrame

\* ------------------------------------------------------------ audio engine
\* the tracks the client's audio engine holds in a run
MaxTracks == 2

TrackIds == 1..MaxTracks

\* the values of a track's volume fader (0..100)
Volumes == {0, 50, 100}

\* the gain of a silent node; the gains are in hundredths of a decibel
MinusInfinity == -100000

\* Tone.gainToDb(volume / 100) = 20 * log10(volume / 100)
GainToDb(volume) ==
  CASE volume = 0 -> MinusInfinity
    [] volume = 50 -> -602
    [] OTHER -> 0

AudioFrame ==
  UNCHANGED <<backend, nextIds, jobs, calls, microQ, pendingIO, statusLog, recs,
              createLog, updates, mem, pg, last, ops, reqs, boot, made, moods, files>>

\* createTrack(trackData): an existing track takes the data's volume, muted
\* and solo, and its gain follows muted; a new track's gain node is built
\* from the volume alone
CreateTrack(id, volume, muted, solo) ==
  /\ tracksRef' =
       IF id \in DOMAIN tracksRef
         THEN [tracksRef EXCEPT ![id] =
                 [volume |-> volume, isMuted |-> muted, isSolo |-> solo,
                  gain |-> IF muted THEN MinusInfinity ELSE GainToDb(volume)]]
         ELSE tracksRef @@ (id :> [volume |-> volume, isMuted |-> muted, isSolo |-> solo,
                                   gain |-> GainToDb(volume)])
  /\ AudioFrame

\* setTrackVolume(trackId, volume)
SetTrackVolume(id, volume) ==
  /\ tracksRef' =
       IF id \in DOMAIN tracksRef
         THEN [tracksRef EXCEPT ![id].volume = volume,
                                ![id].gain = IF tracksRef[id].isMuted THEN MinusInfinity
                                             ELSE GainToDb(volume)]
         ELSE tracksRef
  /\ AudioFrame

\* setTrackMuted(trackId, muted)
SetTrackMuted(id, muted) ==
  /\ tracksRef' =
       IF id \in DOMAIN tracksRef
         THEN [tracksRef EXCEPT ![id].isMuted = muted,
                                ![id].gain = IF muted THEN MinusInfinity
                                             ELSE GainToDb(tracksRef[id].volume)]
         ELSE tracksRef
  /\ AudioFrame

\* setTrackSolo(trackId, solo): with a soloed track the tracks that are
\* neither soloed nor muted are silenced; with none, the tracks that are
\* not muted get the gain of their volume
SetTrackSolo(id, solo) ==
  /\ tracksRef' =
       IF id \in DOMAIN tracksRef
         THEN LET set == [tracksRef EXCEPT ![id].isSolo = solo]
                  anySolo == \E t \in DOMAIN set : set[t].isSolo
              IN [t \in DOMAIN set |->
                    IF anySolo
                      THEN IF ~set[t].isSolo /\ ~set[t].isMuted
                             THEN [set[t] EXCEPT !.gain = MinusInfinity]
                             ELSE set[t]
                      ELSE IF ~set[t].isMuted
                             THEN [set[t] EXCEPT !.gain = GainToDb(set[t].volume)]
                             ELSE set[t]]
         ELSE tracksRef
  /\ AudioFrame

\* ------------------------------------------------------- specification
\* new MemStorage(): empty job maps with their counters at 1; setupDemoData()
\* has filled the entity maps, whose counters stand after the demo records
Init ==
  /\ backend \in Backends
  /\ nextIds = [t \in Kinds \cup ETypes |-> IF t \in Kinds THEN 1 ELSE DemoCount(t) + 1]
  /\ jobs = [k \in Kinds |-> <<>>]
  /\ statusLog = [k \in Kinds |-> <<>>]
  /\ calls = [c \in Calls |-> IdleCall]
  /\ microQ = <<>>
  /\ pendingIO = {}
  /\ recs = [t \in ETypes |-> <<>>]
  /\ createLog = <<>>
  /\ updates = 0
  /\ mem = DemoStore
  /\ pg = DemoStore
  /\ last = [op |-> "none", t |-> "none", key |-> 0, arg |-> <<>>, at |-> 0,
             mem |-> Ok(Null), pg |-> Ok(Null)]
  /\ ops = 0
  /\ reqs = [r \in Reqs |-> IdleReq]
  /\ boot = StartBoot
  /\ made = <<>>
  /\ moods = [rows |-> <<>>, hist |-> <<>>]
  /\ files = [now |-> 1, out |-> <<>>]
  /\ tracksRef = <<>>

\* the job submission paths and the processors
Next ==
  \/ \E c \in Calls, kind \in Kinds : SubmitHelper(c, kind)
  \/ \E c \in Calls, kind \in Kinds, req \in Requests : SubmitRoute(c, kind, req)
  \/ RunAfterCreate
  \/ RunAfterCap
  \/ RunAfterGet
  \/ RunMemUpdate
  \/ RunAfterUpdate
  \/ RunAfterWork
  \/ \E io \in pendingIO : DbExec(io)
  \/ \E io \in pendingIO : DbFail(io)
  \/ \E io \in pendingIO : WorkResolve(io)
  \/ \E io \in pendingIO, msg \in WorkErrors : WorkReject(io, msg)

Spec == Init /\ [][Next]_vars

\* the clients of the entity operations
NextStore ==
  \/ \E t \in ETypes, ins \in Inserts : CreateEntity(t, ins)
  \/ CreateReturn
  \/ \E t \in ETypes : \E id \in Addressable(t), partial \in Partials(t) : UpdateEntity(t, id, partial)
  \/ MemUpdateEntity
  \/ \E t \in ETypes : \E id \in Addressable(t) : DeleteEntity(t, id)
  \/ \E io \in pendingIO : DbInsertEntity(io)
  \/ \E io \in pendingIO : DbUpdateEntity(io)
  \/ \E io \in pendingIO : DbDeleteEntity(io)
  \/ \E io \in pendingIO : DbFailEntity(io)

SpecStore == Init /\ [][NextStore]_vars

\* a client that calls the operations of the store one after the other, each
\* awaited, on a MemStorage and on a DatabaseStorage alike
NextSeq ==
  \/ \E t \in Tables : \E ins \in SeqInserts(t) : SeqCreate(t, ins)
  \/ \E t \in Tables : \E id \in SeqIds(t), partial \in SeqPartials : SeqUpdate(t, id, partial)
  \/ \E t \in ETypes : \E id \in SeqIds(t) : SeqDelete(t, id)
  \/ \E t \in Tables : \E id \in SeqIds(t) : SeqGet(t, id)
  \/ \E t \in Tables \ {"projects"}, p \in SeqParents : SeqList(t, p)

SpecSeq == Init /\ [][NextSeq]_vars

\* PUT and DELETE requests on the entity routes, each handled as the event
\* loop lets it run
NextHttp ==
  \/ \E r \in Reqs, t \in ETypes : \E id \in SeqIds(t) : PutArrives(r, t, id)
  \/ \E r \in Reqs, t \in ETypes : \E id \in SeqIds(t) : DeleteArrives(r, t, id)
  \/ PutAfterGet
  \/ PutMemUpdate
  \/ PutAfterUpdate
  \/ AfterDelete
  \/ \E io \in pendingIO : DbStatement(io)

SpecHttp == Init /\ [][NextHttp]_vars

\* the process starts while requests already arrive
NextBoot ==
  \/ \E configured \in BOOLEAN : ImportDb(configured)
  \/ NewStorage
  \/ \E ok \in BOOLEAN : Connected(ok)
  \/ \E ok \in BOOLEAN : Migrated(ok)
  \/ \E ok \in BOOLEAN : DemoLoaded(ok)
  \/ \E t \in {"tracks", "music"} : ApiCreate(t)

SpecBoot == Init /\ [][NextBoot]_vars

\* callers of the in-memory store that do not await one call before the
\* next, all working on the one record the run creates
NextRace ==
  \/ \E t \in ETypes, ins \in Inserts :
       backend = "mem" /\ createLog = <<>> /\ CreateEntity(t, ins)
  \/ CreateReturn
  \/ \E t \in ETypes : \E id \in Addressable(t), partial \in RacePartials :
       UpdateInFlight(t, id, partial)
  \/ MemUpdateEntity
  \/ \E t \in ETypes : \E id \in Addressable(t) : backend = "mem" /\ DeleteEntity(t, id)

SpecRace == Init /\ [][NextRace]_vars

\* the processors write their output files while time passes
NextFiles ==
  \/ ClockTick
  \/ \E c \in Calls, kind \in Kinds, upload \in Uploads : WriteOutput(c, kind, upload)

SpecFiles == Init /\ [][NextFiles]_vars

\* the studio page drives the audio engine
NextAudio ==
  \/ \E id \in TrackIds, v \in Volumes, muted \in BOOLEAN, solo \in BOOLEAN :
       CreateTrack(id, v, muted, solo)
  \/ \E id \in TrackIds, v \in Volumes : SetTrackVolume(id, v)
  \/ \E id \in TrackIds, muted \in BOOLEAN : SetTrackMuted(id, muted)
  \/ \E id \in TrackIds, solo \in BOOLEAN : SetTrackSolo(id, solo)

SpecAudio == Init /\ [][NextAudio]_vars

\* awaited calls on the mood tag join table
NextMood ==
  \/ \E c \in MoodClips, t \in MoodTags, replace \in BOOLEAN : AddMoodTag(c, t, 5, replace)
  \/ \E c \in MoodClips, t \in MoodTags : UpdateWeight(c, t, 8)
  \/ \E c \in MoodClips, t \in MoodTags : RemoveMoodTag(c, t)
  \/ \E c \in MoodClips : GetMoodTags(c)

SpecMood == Init /\ [][NextMood]_vars

\* ------------------------------------------------------------- job claims
Terminal == {"completed", "failed"}

Dispatched(c) == calls[c].ppc # "none"
Settled(c) == calls[c].ppc \in {"resolved", "rejected"}
JobId(c) == calls[c].job[1].id
JobLive(c) == JobId(c) \in Live(calls[c].kind)
Stored(c) == jobs[calls[c].kind][JobId(c)]

\* C1: the status stored for a job only moves forward: once it is processing
\* it is never pending again, and once it is completed or failed it never
\* changes again (and a stored job stays stored).
C1_StatusForward ==
  [][\A k \in Kinds : \A id \in DOMAIN jobs[k] :
        /\ id \in DOMAIN jobs'[k]
        /\ jobs[k][id].status = "processing" => jobs'[k][id].status # "pending"
        /\ jobs[k][id].status \in Terminal => jobs'[k][id].status = jobs[k][id].status
    ]_vars

C1_Witness ==
  \E k \in Kinds : \E id \in DOMAIN jobs[k] :
    /\ jobs[k][id].status \in Terminal
    /\ Len(statusLog[k][id]) = 3

\* C2: a completed job has its output and no error; a failed job has its
\* error and no output.
C2_OutputsAndErrors ==
  \A k \in Kinds : \A id \in DOMAIN jobs[k] :
    /\ jobs[k][id].status = "completed" =>
         IsSet(jobs[k][id].output) /\ ~IsSet(jobs[k][id].error)
    /\ jobs[k][id].status = "failed" =>
         IsSet(jobs[k][id].error) /\ ~IsSet(jobs[k][id].output)

C2_Witness ==
  /\ \E k \in Kinds : \E id \in DOMAIN jobs[k] : jobs[k][id].status = "completed"
  /\ \E k \in Kinds : \E id \in DOMAIN jobs[k] : jobs[k][id].status = "failed"

\* C3 as claimed: createAndProcess<Job> returns a pending job and the get the
\* caller issues immediately afterwards also returns status pending.
C3_GetStillPending ==
  \A c \in Calls :
    calls[c].via = "helper" /\ calls[c].cpc = "done" /\ IsSet(calls[c].got) =>
      /\ calls[c].returned[1].status = "pending"
      /\ calls[c].got[1].status = "pending"

\* C3 as amended: the returned job has status pending, but with the in-memory
\* store the get the caller issues immediately afterwards already returns
\* status processing.
C3_ReturnedPendingStoredProcessing ==
  \A c \in Calls :
    calls[c].via = "helper" /\ IsSet(calls[c].returned) =>
      /\ calls[c].returned[1].status = "pending"
      /\ backend = "mem" /\ calls[c].cpc = "done" =>
           IsSet(calls[c].got) /\ calls[c].got[1].status = "processing"

C3_Witness ==
  \E c \in Calls :
    /\ backend = "mem" /\ calls[c].via = "helper" /\ calls[c].cpc = "done"
    /\ IsSet(calls[c].got) /\ calls[c].got[1].status = "processing"
    /\ calls[c].returned[1].status = "pending"

\* C4 as claimed: when a step of the processor has failed, the processor's
\* promise resolves and the stored job is failed with the failure's message.
C4_FailureRecordedNeverRethrown ==
  \A c \in Calls :
    IsSet(calls[c].err) /\ Settled(c) =>
      /\ calls[c].ppc = "resolved"
      /\ JobLive(c)
      /\ Stored(c).status = "failed"
      /\ Stored(c).error = calls[c].err

\* C5: whatever the processor does, createAndProcess<Job> returns the job it
\* created and the POST handler answers 201 with that job.
C5_CallerNeverSeesProcessor ==
  \A c \in Calls :
    Dispatched(c) =>
      /\ calls[c].job[1] = NewJob(JobId(c), 1, calls[c].kind)
      /\ calls[c].via = "helper" /\ calls[c].cpc \in {"awaitGet", "done"} =>
           calls[c].returned = calls[c].job
      /\ calls[c].via = "route" =>
           calls[c].cpc = "done" /\ calls[c].response = Some([code |-> 201, body |-> calls[c].job[1]])

C5_Witness ==
  \E c \in Calls :
    /\ calls[c].via = "route" /\ calls[c].ppc = "rejected"
    /\ calls[c].response[1].code = 201

\* C6 as claimed, in the form a finite run refutes: nothing but its processor
\* updates a job, so a job whose processor has settled must be completed or
\* failed.
C6_SettledIsTerminal ==
  \A c \in Calls :
    Settled(c) => JobLive(c) /\ Stored(c).status \in Terminal

\* C7: a job is processed at most once: one processor invocation per job id,
\* processing stored at most once, nothing stored after completed or failed.
C7_ProcessedOnce ==
  /\ \A c, d \in Calls :
       c # d /\ Dispatched(c) /\ Dispatched(d) /\ calls[c].kind = calls[d].kind =>
         JobId(c) # JobId(d)
  /\ \A k \in Kinds : \A id \in DOMAIN statusLog[k] :
       LET log == statusLog[k][id]
       IN /\ Cardinality({i \in 1..Len(log) : log[i] = "processing"}) <= 1
          /\ \A i \in 1..Len(log) : log[i] \in Terminal => i = Len(log)

C7_Witness ==
  \E c, d \in Calls :
    /\ c # d /\ calls[c].kind = calls[d].kind
    /\ Settled(c) /\ Settled(d)
    /\ statusLog[calls[c].kind][JobId(c)] = <<"pending", "processing", "completed">>
    /\ statusLog[calls[d].kind][JobId(d)] = <<"pending", "processing", "failed">>

\* ----------------------------------------------------------- store claims
Creates == 1..Len(createLog)
HasId(n) == IsSet(createLog[n].id)
IdOf(n) == createLog[n].id[1]
\* neither call had returned when the other was made
Overlap(m, n) == m # n /\ m \notin createLog[n].after /\ n \notin createLog[m].after

\* C8: create calls made one after the other return distinct, strictly
\* increasing ids, whatever was deleted in between.
C8_SequentialIdsIncrease ==
  \A m, n \in Creates :
    HasId(m) /\ HasId(n) /\ m \in createLog[n].after => IdOf(m) < IdOf(n)

C8_Witness ==
  \E m, n \in Creates :
    /\ HasId(m) /\ HasId(n) /\ createLog[n].ret
    /\ m \in createLog[n].after
    /\ IdOf(m) \notin DOMAIN recs[createLog[m].type]
    /\ IdOf(n) \in DOMAIN recs[createLog[n].type]

\* C9: create calls of one entity type that are in flight at the same time
\* never return the same id.
C9_ConcurrentIdsDistinct ==
  \A m, n \in Creates :
    HasId(m) /\ HasId(n) /\ Overlap(m, n) => IdOf(m) # IdOf(n)

C9_Witness ==
  \E m, n \in Creates :
    /\ Overlap(m, n)
    /\ HasId(m) /\ HasId(n)
    /\ createLog[m].ret /\ createLog[n].ret

\* C10 as claimed: after any create, update and delete calls no two stored
\* records of a type share an id, and the record stored under k has id k.
C10_IdsUniqueAndKeyed ==
  \A t \in ETypes :
    /\ \A k \in DOMAIN recs[t] : recs[t][k].id = k
    /\ \A j, k \in DOMAIN recs[t] : recs[t][j].id = recs[t][k].id => j = k

\* ---------------------------------------------------- store contract claims
\* the call that a step of the client makes
Called(op) == ops' = ops + 1 /\ last'.op = op
NotFound(r) == ~r.ok /\ r.val = NotFoundError

\* C11: update(id, partial) with an id that is not live, on any table that
\* has an update (projects, tracks, clips, effects and the three job kinds)
\* and on either store, fails with the not-found error and leaves the
\* store's contents as they were.
C11_UpdateMissingFails ==
  [][Called("update") =>
       /\ last'.key \notin DOMAIN mem.rows[last'.t] => NotFound(last'.mem) /\ mem' = mem
       /\ last'.key \notin DOMAIN pg.rows[last'.t] => NotFound(last'.pg) /\ pg' = pg]_vars

C11_Witness ==
  /\ last.op = "update"
  /\ last.t \in Kinds
  /\ NotFound(last.mem)
  /\ NotFound(last.pg)
  /\ mem.rows[last.t] = <<>>

\* an update or a delete touches no row but the one it addresses
OthersKept(s, s2, t, id) ==
  /\ s2.nextIds = s.nextIds
  /\ \A u \in Tables \ {t} : s2.rows[u] = s.rows[u]
  /\ \A k \in DOMAIN s.rows[t] \ {id} : k \in DOMAIN s2.rows[t] /\ s2.rows[t][k] = s.rows[t][k]
  /\ DOMAIN s2.rows[t] \subseteq DOMAIN s.rows[t]

\* delete(id) answers whether id was live, and id is not live afterwards
DeleteContract(s, s2, r, t, id) ==
  /\ r.ok
  /\ r.val = (id \in DOMAIN s.rows[t])
  /\ id \notin DOMAIN s2.rows[t]
  /\ OthersKept(s, s2, t, id)

\* C12: for projects, tracks, clips and effects, delete(id) returns true
\* exactly when a record with that id was live, and removes it (so a second
\* delete returns false and a get returns absent), on either store.
C12_DeleteReturnsLiveness ==
  [][Called("delete") =>
       /\ DeleteContract(mem, mem', last'.mem, last'.t, last'.key)
       /\ DeleteContract(pg, pg', last'.pg, last'.t, last'.key)]_vars

\* the row under id keeps every field that the partial document does not
\* name (updatedAt apart), and takes the fields it names
UpdateContract(s, s2, r, t, id, partial) ==
  /\ OthersKept(s, s2, t, id)
  /\ id \in DOMAIN s2.rows[t]
  /\ DOMAIN s2.rows[t][id] = DOMAIN s.rows[t][id]
  /\ \A f \in DOMAIN s.rows[t][id] \ (DOMAIN partial \cup {"updatedAt"}) :
        s2.rows[t][id][f] = s.rows[t][id][f]
  /\ r.ok =>
        /\ r.val = s2.rows[t][id]
        /\ \A f \in DOMAIN partial : s2.rows[t][id][f] = partial[f]

\* C13: update(id, partial) on a live record changes only the fields named
\* in partial (and updatedAt where the table has it): every other field of
\* the record and every other record of the store stay as they were.
C13_UpdateTouchesNamedFieldsOnly ==
  [][Called("update") =>
       /\ last'.key \in DOMAIN mem.rows[last'.t] =>
             UpdateContract(mem, mem', last'.mem, last'.t, last'.key, last'.arg)
       /\ last'.key \in DOMAIN pg.rows[last'.t] =>
             UpdateContract(pg, pg', last'.pg, last'.t, last'.key, last'.arg)]_vars

C13_Witness ==
  /\ last.op = "update"
  /\ last.t = "tracks"
  /\ last.arg = [name |-> "n1"]
  /\ last.mem.ok
  /\ last.pg.ok
  /\ mem.rows["tracks"][1] = [id |-> 1, parent |-> 1, name |-> "n1", createdAt |-> 0]
  /\ pg.rows["tracks"][1] = [id |-> 1, parent |-> 1, name |-> "n1", createdAt |-> 0]

\* a record without its timestamps
Untimed(rec) == [f \in DOMAIN rec \ {"createdAt", "updatedAt"} |-> rec[f]]

\* two answers that are the same up to timestamps and to the order of a list
SameAnswer(op, m, d) ==
  /\ m.ok = d.ok
  /\ ~m.ok => m.val = d.val
  /\ m.ok =>
       CASE op \in {"create", "update"} -> Untimed(m.val) = Untimed(d.val)
         [] op = "delete" -> m.val = d.val
         [] op = "get" ->
              /\ IsSet(m.val) = IsSet(d.val)
              /\ IsSet(m.val) => Untimed(m.val[1]) = Untimed(d.val[1])
         [] op = "list" ->
              /\ DOMAIN m.val = DOMAIN d.val
              /\ \A k \in DOMAIN m.val : Untimed(m.val[k]) = Untimed(d.val[k])
         [] OTHER -> TRUE

\* C14: the in-memory store and the database store are observationally
\* equivalent: after the same sequence of get, list, create, update and
\* delete calls from the same contents, each call has returned the same
\* result or the same error in both, up to list order and timestamps.
C14_BackendsEquivalent == SameAnswer(last.op, last.mem, last.pg)

\* no row references a parent that is not live
NoDangling(s) ==
  \A c \in Tables : \A k \in DOMAIN s.rows[c] :
    s.rows[c][k].parent \in LiveIds(s, ParentOf(c))

\* C15: in the database store, deleting a live project or track succeeds
\* (returns true) also when it has children, and removes them with it: no
\* live row references a deleted parent afterwards.
C15_DeleteCascades ==
  [][(Called("delete") /\ last'.key \in DOMAIN pg.rows[last'.t]) =>
       /\ last'.pg.ok
       /\ last'.pg.val = TRUE
       /\ last'.key \notin DOMAIN pg'.rows[last'.t]
       /\ NoDangling(pg')]_vars

\* POST /api/<entity>: 201 with the record, or 400 with the error's message
PostRoute(r) == IF r.ok THEN RouteCreated(r.val) ELSE RouteBadRequest(r.val)

\* a create whose parent is not live is answered 400 and stores nothing
RejectsOrphan(s, s2, r, t, ins) ==
  ins.parent \notin LiveIds(s, ParentOf(t)) =>
    /\ PostRoute(r).code = 400
    /\ s2.rows = s.rows

\* C16: every track, clip, effect and job created through the HTTP API
\* references a parent that is live at the moment of creation: a create
\* request that names a parent which does not exist is rejected and stores
\* nothing.
C16_CreateValidatesParent ==
  [][(Called("create") /\ last'.t # "projects") =>
       /\ RejectsOrphan(mem, mem', last'.mem, last'.t, last'.arg)
       /\ RejectsOrphan(pg, pg', last'.pg, last'.t, last'.arg)]_vars

\* updatedAt is not before createdAt in any project or job record
StampsOrdered(s) ==
  \A t \in Tables : HasUpdatedAt(t) =>
    \A k \in DOMAIN s.rows[t] : s.rows[t][k].updatedAt >= s.rows[t][k].createdAt

\* the last call was a successful update of a project or job and the record
\* carries the time of that call as its updatedAt
StampedNow(s, r) ==
  (last.op = "update" /\ HasUpdatedAt(last.t) /\ r.ok) =>
    /\ r.val.updatedAt = last.at
    /\ s.rows[last.t][last.key].updatedAt = last.at

\* C17: for every project and job record, updatedAt >= createdAt in every
\* reachable state, and every successful update sets updatedAt to the time
\* of that update, whatever the partial document contains.
C17_UpdatedAtNotBeforeCreatedAt ==
  /\ StampsOrdered(mem)
  /\ StampsOrdered(pg)
  /\ StampedNow(mem, last.mem)
  /\ StampedNow(pg, last.pg)

\* the record a create returned is the one stored, with the defaults filled in
FillsDefaults(s, r) ==
  (last.op = "create" /\ r.ok) =>
    /\ r.val.id \in DOMAIN s.rows[last.t]
    /\ s.rows[last.t][r.val.id] = r.val
    /\ last.t \in Kinds => r.val.status = "pending"
    /\ (last.t = "projects" /\ "bpm" \notin DOMAIN last.arg) =>
         /\ DOMAIN r.val = {"id", "parent", "name", "bpm", "timeSignature",
                            "createdAt", "updatedAt"}
         /\ r.val.bpm = DefaultBpm
         /\ r.val.timeSignature = DefaultTimeSignature

\* C18: create fills defaults and returns the full stored record: a project
\* created without bpm and timeSignature is stored and returned with bpm 120
\* and timeSignature "4/4", and a job is stored and returned with status
\* pending, in both stores.
C18_CreateFillsDefaults ==
  /\ FillsDefaults(mem, last.mem)
  /\ FillsDefaults(pg, last.pg)

\* the answer of a list call holds exactly the rows whose parent key is p,
\* each once and as it is stored
ListExact(s, r, t, p) ==
  /\ r.ok
  /\ DOMAIN r.val \subseteq DOMAIN s.rows[t]
  /\ \A k \in DOMAIN s.rows[t] : (s.rows[t][k].parent = p) <=> (k \in DOMAIN r.val)
  /\ \A k \in DOMAIN r.val : r.val[k] = s.rows[t][k]

\* C19: listByParent is exact: after any sequence of create, update and
\* delete calls, get<X>sBy<Parent>Id(p) returns exactly the live records
\* whose parent key equals p, each once and with the fields last stored, and
\* no record of another parent.
C19_ListByParentExact ==
  (last.op = "list") =>
    /\ ListExact(mem, last.mem, last.t, last.key)
    /\ ListExact(pg, last.pg, last.t, last.key)

C19_Witness ==
  /\ last.op = "list"
  /\ last.t = "audioClips"
  /\ last.key = 2
  /\ DOMAIN last.mem.val = {1, 3}
  /\ DOMAIN last.pg.val = {1, 3}
  /\ last.mem.val[1].name = "n1"

C21_StemOutputPaths ==
  \A c \in Calls :
    (calls[c].kind = "stem" /\ calls[c].ppc = "resolved" /\ calls[c].err = Null) =>
      /\ JobLive(c)
      /\ Stored(c).status = "completed"
      /\ IsSet(Stored(c).output)
      /\ DOMAIN Stored(c).output[1] = StemTypes
      /\ \A s \in StemTypes : Len(Stored(c).output[1][s]) > 0

C21_Witness ==
  \E c \in Calls :
    /\ calls[c].kind = "stem"
    /\ calls[c].ppc = "resolved"
    /\ calls[c].err = Null
    /\ Stored(c).output = Some(WorkOutput("stem"))

\* ---------------------------------------------------------- start-up claims
\* C22: whatever happens at start-up (the connection fails, the migrations
\* fail, the database is not configured), the process starts and has a
\* usable store: the in-memory store when the database cannot be used.
C22_AlwaysUsableStore ==
  /\ boot.phase # "crashed"
  /\ boot.phase = "up" => boot.storage = "mem"

\* the store that the routes use
RouteStore == IF boot.storage = "mem" THEN mem ELSE pg

RowsFor(rows, tag) == {i \in 1..Len(rows) : rows[i].moodTagId = tag}

\* the calls i, i+1, i+2 are add(clip, tag, 5), update(clip, tag, 8) and
\* get(clip), with add and update succeeding
RoundTrip(i) ==
  LET h == moods.hist
  IN /\ i + 2 <= Len(h)
     /\ h[i].op = "add" /\ h[i].weight = 5 /\ h[i].r.ok
     /\ h[i + 1].op = "update" /\ h[i + 1].weight = 8 /\ h[i + 1].r.ok
     /\ h[i + 1].clip = h[i].clip /\ h[i + 1].tag = h[i].tag
     /\ h[i + 2].op = "get" /\ h[i + 2].clip = h[i].clip

\* an update whose pair had no row when it was called: the first call, or
\* the call after a remove of the pair
OnMissingPair(i) ==
  LET h == moods.hist
  IN /\ i <= Len(h)
     /\ h[i].op = "update"
     /\ \/ i = 1
        \/ h[i - 1].op = "remove" /\ h[i - 1].clip = h[i].clip /\ h[i - 1].tag = h[i].tag

\* C23: add(clip, tag, weight 5), then update(clip, tag, 8), then get(clip)
\* returns exactly one row for the tag, with weight 8; and an update of a
\* pair that has no row fails with not found.
C23_MoodWeightRoundTrip ==
  \A i \in 1..Len(moods.hist) :
    /\ RoundTrip(i) =>
         LET got == moods.hist[i + 2].r.val
         IN /\ Cardinality(RowsFor(got, moods.hist[i].tag)) = 1
            /\ \A k \in RowsFor(got, moods.hist[i].tag) : got[k].weight = 8
    /\ OnMissingPair(i) => NotFound(moods.hist[i].r)

C23_Witness ==
  /\ OnMissingPair(1)
  /\ NotFound(moods.hist[1].r)
  /\ RoundTrip(2)
  /\ \E k \in RowsFor(moods.hist[4].r.val, moods.hist[2].tag) :
       moods.hist[4].r.val[k].weight = 8

\* ------------------------------------------------- in-memory store races
\* this step is the write of the update call at the head of the queue, on a
\* record that is stored
Writes ==
  /\ microQ # <<>>
  /\ Head(microQ).k = "memUpdateE"
  /\ IsSet(Head(microQ).v)
  /\ microQ' = Tail(microQ)
  /\ Head(microQ).c \in DOMAIN recs[Head(microQ).t]

\* C24: in the in-memory store two update calls on one id that are in
\* flight together both take effect: the write of the one leaves the fields
\* it does not name as the other wrote them, so with disjoint fields the
\* record carries both values.
C24_NoLostUpdate ==
  [][Writes =>
       LET u == Head(microQ)
       IN \A f \in DOMAIN recs[u.t][u.c] \ DOMAIN u.p :
            recs'[u.t][u.c][f] = recs[u.t][u.c][f]]_vars

\* C26: in the in-memory store a record that was deleted never becomes live
\* again, also when an update of its id was called before the delete and
\* writes after it.
C26_DeletedStaysDeleted ==
  [][backend = "mem" =>
       \A t \in ETypes : \A id \in Window(t) :
         (id < nextIds[t] /\ id \notin DOMAIN recs[t]) => id \notin DOMAIN recs'[t]]_vars

\* C25: no two distinct jobs ever write the same output file path, also
\* when their processors read the clock in the same millisecond.
C25_OutputPathsDistinct ==
  \A c \in DOMAIN files.out : \A d \in DOMAIN files.out :
    c # d => files.out[c] \cap files.out[d] = {}

\* -------------------------------------------------------- processor frame
\* the processor of the job (k, id) is running
Processing(k, id) ==
  \E c \in Calls :
    /\ calls[c].kind = k
    /\ IsSet(calls[c].job)
    /\ JobId(c) = id
    /\ Dispatched(c)
    /\ ~Settled(c)

AnySolo == \E t \in DOMAIN tracksRef : tracksRef[t].isSolo

Audible(t) == tracksRef[t].gain = GainToDb(tracksRef[t].volume)

Silent(t) == tracksRef[t].gain = MinusInfinity

\* C29: after any sequence of createTrack, setTrackVolume, setTrackMuted and
\* setTrackSolo: while a track is soloed, every soloed track that is not
\* muted has the gain of its volume and every track that is not soloed is
\* silent; while none is soloed, every track that is not muted has the gain
\* of its volume.
C29_SoloDecidesAudible ==
  \A t \in DOMAIN tracksRef :
    IF AnySolo
      THEN /\ (tracksRef[t].isSolo /\ ~tracksRef[t].isMuted) => Audible(t)
           /\ ~tracksRef[t].isSolo => Silent(t)
      ELSE ~tracksRef[t].isMuted => Audible(t)

\* C30: a muted track is always silent, a track created muted included.
C30_MutedIsSilent ==
  \A t \in DOMAIN tracksRef : tracksRef[t].isMuted => Silent(t)

====
